---- MODULE Spec2Model ----
(***************************************************************************)
(* Blood-donation registry: the express server (src/server.js), the MySQL  *)
(* donors table it creates and queries, and the browser form handlers      *)
(* (src/unnamed/part_000) that call it.                                    *)
(*                                                                         *)
(* Numbers.  Coordinates are integers in units of 1/10000 degree           *)
(* (28.6139 degrees is 286139).  Distances are integers in metres: the     *)
(* value FLOOR(1000 * distance) of the SQL expression of the search query, *)
(* evaluated in IEEE doubles as MySQL evaluates it; NULL is the value      *)
(* MySQL's ACOS returns for an argument outside [-1, 1].                   *)
(*                                                                         *)
(* Storage.  The donors table is the one of the CREATE TABLE statement,    *)
(* under MySQL's default strict SQL mode: a statement is atomic, a value   *)
(* that does not fit its column is an error and not a truncation.          *)
(*                                                                         *)
(* Scheduling.  A handler runs without interruption up to an `await'; at   *)
(* an await other handlers may run.  This holds of the first await of      *)
(* initializeDatabase too: requests can be handled before `db' is          *)
(* assigned.                                                               *)
(***************************************************************************)
EXTENDS Integers, Sequences, FiniteSets, TLC

\* ------------------------------------------------------------------ bounds

\* Number of HTTP requests (registrations and searches together) in a run.
MaxReq == 2

\* ------------------------------------------------------- program constants

searchRadiusKm == 15

\* Column limits of the CREATE TABLE statement, in the model's units:
\* DECIMAL(10, 8) holds |v| < 100 degrees, DECIMAL(11, 8) holds |v| < 1000.
LatitudeColumnLimit == 1000000
LongitudeColumnLimit == 10000000

\* ------------------------------------------------------------ input values

\* A request body or query string is a record of values and the set `has' of
\* the fields it carries; a field outside `has' is undefined in JavaScript.
TextFields == {"name", "bloodGroup", "phone", "email", "address"}
NumberFields == {"age", "latitude", "longitude"}
DonorFields == TextFields \cup NumberFields

\* Latitudes: Delhi, 10.03 km north of it, 8.0 degrees (far south), and two
\* values that are not latitudes: 95 degrees fits DECIMAL(10, 8), 100 does not.
\* Longitudes: Delhi's, and 200 degrees, which fits DECIMAL(11, 8).
Lat == [delhi |-> 286139, north |-> 287041, south |-> 80000,
        beyond |-> 950000, overflow |-> 1000000]
Lon == [delhi |-> 772090, beyond |-> 2000000]

BaseDonor ==
    [has |-> DonorFields, name |-> "Asha", age |-> 25, bloodGroup |-> "A+",
     phone |-> "p1", email |-> "a@x", address |-> "Delhi",
     latitude |-> Lat.delhi, longitude |-> Lon.delhi]

\* Inputs every field of which the data model accepts (present, age positive,
\* coordinates within geographic bounds, blood group recognised).
OrdinaryDonors ==
    {BaseDonor,
     [BaseDonor EXCEPT !.latitude = Lat.north],
     [BaseDonor EXCEPT !.phone = "p2", !.latitude = Lat.north],
     [BaseDonor EXCEPT !.phone = "p2", !.latitude = Lat.south],
     [BaseDonor EXCEPT !.phone = "p2", !.bloodGroup = "O-"]}

\* The base input with one field changed: left out, zero, or out of range.
DeviantDonors ==
    {[BaseDonor EXCEPT !.has = DonorFields \ {f}] : f \in DonorFields}
    \cup {[BaseDonor EXCEPT !.age = 0 - 5]}
    \cup {[BaseDonor EXCEPT !.bloodGroup = "XY"]}
    \cup {[BaseDonor EXCEPT !.latitude = lat] : lat \in {0, Lat.beyond, Lat.overflow}}
    \cup {[BaseDonor EXCEPT !.longitude = Lon.beyond]}

DonorInputs == OrdinaryDonors \cup DeviantDonors

\* Query strings of GET /api/donors/search as express parses them: every value
\* is a string, so "0" is a value like any other.
BaseQuery ==
    [has |-> {"latitude", "longitude", "bloodGroup"},
     latitude |-> Lat.delhi, longitude |-> Lon.delhi, bloodGroup |-> "A+"]

SearchQueries ==
    {BaseQuery,
     [BaseQuery EXCEPT !.bloodGroup = "O-"],
     [BaseQuery EXCEPT !.latitude = Lat.south]}
    \cup {[BaseQuery EXCEPT !.has = @ \ {f}] :
            f \in {"latitude", "longitude", "bloodGroup"}}

\* What the forms of the page can submit: the text fields of the donor form,
\* what the geocoder answers for the address (null: nothing found; a place on
\* the equator has latitude 0), the seeker's blood group.  The form sends its
\* age as a string; for the age of these inputs the string and the number are
\* both truthy and MySQL stores the same INT.
FormDonors == {BaseDonor, [BaseDonor EXCEPT !.phone = "p2"]}
GeocodeAnswers == {"null", "delhi", "equator"}
FormGroups == {"A+", "O-"}

\* --------------------------------------------------------- POST /api/donors

\* !x of JavaScript for a field of a JSON body: undefined and the number 0 are
\* falsy (the text values of the model are non-empty strings).
Falsy(body, f) ==
    \/ f \notin body.has
    \/ f \in NumberFields /\ body[f] = 0

\* The "Basic validation" of the registration handler.
RegisterRejected(body) ==
    \/ Falsy(body, "name")
    \/ Falsy(body, "age")
    \/ Falsy(body, "bloodGroup")
    \/ Falsy(body, "phone")
    \/ Falsy(body, "latitude")
    \/ Falsy(body, "longitude")

Abs(n) == IF n < 0 THEN 0 - n ELSE n

PhoneTaken(table, phone) == \E i \in 1..Len(table) : table[i].phone = phone

\* The error, if any, of the INSERT statement on the donors table: a missing
\* table, NULL (an undefined parameter) in a NOT NULL column, a coordinate
\* that does not fit its DECIMAL column, the UNIQUE index on phone.
InsertError(exists, table, body) ==
    IF ~exists THEN "ER_NO_SUCH_TABLE"
    ELSE IF "email" \notin body.has \/ "address" \notin body.has
        THEN "ER_BAD_NULL_ERROR"
    ELSE IF \/ Abs(body.latitude) >= LatitudeColumnLimit
            \/ Abs(body.longitude) >= LongitudeColumnLimit
        THEN "ER_WARN_DATA_OUT_OF_RANGE"
    ELSE IF PhoneTaken(table, body.phone) THEN "ER_DUP_ENTRY"
    ELSE "none"

\* The row the INSERT statement stores (registration_date is left out: no
\* statement of the program reads it).
DonorRow(id, body) ==
    [id |-> id, name |-> body.name, age |-> body.age,
     bloodGroup |-> body.bloodGroup, phone |-> body.phone,
     email |-> body.email, address |-> body.address,
     latitude |-> body.latitude, longitude |-> body.longitude]

\* REPLACE INTO in place of INSERT INTO: a row with the same phone number is
\* deleted and the new row stored.
ReplaceStatement(exists, table, id, body) ==
    LET err == IF InsertError(exists, table, body) = "ER_DUP_ENTRY" THEN "none"
               ELSE InsertError(exists, table, body)
    IN  [err |-> err,
         table |-> IF err = "none"
                   THEN Append(SelectSeq(table, LAMBDA row : row.phone # body.phone),
                               DonorRow(id, body))
                   ELSE table]

\* The INSERT statement, run atomically: its error and the table after it.
InsertStatement(exists, table, id, body) ==
    LET err == InsertError(exists, table, body)
    IN  [err |-> err,
         table |-> IF err = "none" THEN Append(table, DonorRow(id, body)) ELSE table]

\* A handler that answers 201 whatever db.query did.
RegisterStatusCreated(err) == 201

\* The status the registration handler answers with, from the outcome of
\* db.query: the result, ER_DUP_ENTRY, or any other error.
RegisterStatus(err) ==
    IF err = "none" THEN 201
    ELSE IF err = "ER_DUP_ENTRY" THEN 409
    ELSE 500

\* --------------------------------------------------- GET /api/donors/search

\* The "Basic validation" of the search handler: a query-string value is a
\* string, falsy only when it is absent.
SearchRejected(query) ==
    \/ "latitude" \notin query.has
    \/ "longitude" \notin query.has
    \/ "bloodGroup" \notin query.has

Metres(m) == [null |-> FALSE, m |-> m]
NullDistance == [null |-> TRUE, m |-> 0]

\* The column `distance' of the search query,
\*   6371 * acos(cos(radians(?)) * cos(radians(latitude))
\*               * cos(radians(longitude) - radians(?))
\*               + sin(radians(?)) * sin(radians(latitude))),
\* for the origins and the stored coordinates of the model, in whole metres.
\* From latitude 8.0 to itself the argument of acos is 1.0000000000000002 in
\* doubles, and ACOS of it is NULL.
Distance(olat, olon, lat, lon) ==
    CASE <<olat, olon, lat, lon>> = <<286139, 772090, 286139, 772090>> -> Metres(0)
      [] <<olat, olon, lat, lon>> = <<286139, 772090, 287041, 772090>> -> Metres(10029)
      [] <<olat, olon, lat, lon>> = <<286139, 772090, 80000, 772090>> -> Metres(2292161)
      [] <<olat, olon, lat, lon>> = <<286139, 772090, 950000, 772090>> -> Metres(7381797)
      [] <<olat, olon, lat, lon>> = <<286139, 772090, 286139, 2000000>> -> Metres(11212564)
      [] <<olat, olon, lat, lon>> = <<286139, 772090, 287041, 2000000>> -> Metres(11205945)
      [] <<olat, olon, lat, lon>> = <<286139, 772090, 80000, 2000000>> -> Metres(12658223)
      [] <<olat, olon, lat, lon>> = <<286139, 772090, 950000, 2000000>> -> Metres(6534596)
      [] <<olat, olon, lat, lon>> = <<80000, 772090, 286139, 772090>> -> Metres(2292161)
      [] <<olat, olon, lat, lon>> = <<80000, 772090, 287041, 772090>> -> Metres(2302190)
      [] <<olat, olon, lat, lon>> = <<80000, 772090, 80000, 772090>> -> NullDistance
      [] <<olat, olon, lat, lon>> = <<80000, 772090, 950000, 772090>> -> Metres(9673958)
      [] <<olat, olon, lat, lon>> = <<80000, 772090, 286139, 2000000>> -> Metres(12658223)
      [] <<olat, olon, lat, lon>> = <<80000, 772090, 287041, 2000000>> -> Metres(12654064)
      [] <<olat, olon, lat, lon>> = <<80000, 772090, 80000, 2000000>> -> Metres(13429931)
      [] <<olat, olon, lat, lon>> = <<80000, 772090, 950000, 2000000>> -> Metres(8819579)

\* The columns the search query selects, for one row.
MatchOf(query, row) ==
    [id |-> row.id, name |-> row.name, bloodGroup |-> row.bloodGroup,
     phone |-> row.phone, latitude |-> row.latitude, longitude |-> row.longitude,
     distance |-> Distance(query.latitude, query.longitude,
                           row.latitude, row.longitude)]

\* WHERE bloodGroup = ?
WhereBloodGroup(query, row) == row.bloodGroup = query.bloodGroup

\* HAVING distance < ?  (a comparison with NULL is not true)
HavingDistance(match) ==
    /\ ~match.distance.null
    /\ match.distance.m < searchRadiusKm * 1000

\* FROM donors WHERE ... HAVING ..., in the order of the table.
RECURSIVE Selected(_, _)
Selected(query, table) ==
    IF table = <<>> THEN <<>>
    ELSE LET rest == Selected(query, Tail(table))
             match == MatchOf(query, Head(table))
         IN  IF WhereBloodGroup(query, Head(table)) /\ HavingDistance(match)
             THEN <<match>> \o rest
             ELSE rest

\* ORDER BY distance: one match put in its place in an ordered sequence.
RECURSIVE InsertByDistance(_, _)
InsertByDistance(match, sorted) ==
    IF sorted = <<>> THEN <<match>>
    ELSE IF match.distance.m <= Head(sorted).distance.m
        THEN <<match>> \o sorted
    ELSE <<Head(sorted)>> \o InsertByDistance(match, Tail(sorted))

\* The query without its ORDER BY clause.
TableOrder(matches) == matches

RECURSIVE OrderByDistance(_)
OrderByDistance(matches) ==
    IF matches = <<>> THEN <<>>
    ELSE InsertByDistance(Head(matches), OrderByDistance(Tail(matches)))

\* The rows the search query returns.
SearchRows(query, table) == OrderByDistance(Selected(query, table))

\* The error, if any, of the SELECT statement.
SelectError(exists) == IF exists THEN "none" ELSE "ER_NO_SUCH_TABLE"

\* The status the search handler answers with.
SearchStatus(err) == IF err = "none" THEN 200 ELSE 500

\* ------------------------------------------------------------- the browser

\* What express's query parser makes of the text the page puts after
\* "bloodGroup=" (the page does not encode it): a "+" is a space.
QueryValue(raw) ==
    CASE raw = "A+" -> "A "
      [] raw = "B+" -> "B "
      [] raw = "AB+" -> "AB "
      [] raw = "O+" -> "O "
      [] OTHER -> raw

\* setLoadingState(button, isLoading, loadingText); dataset.originalText is ""
\* when the attribute is not set.
setLoadingState(button, isLoading, loadingText) ==
    LET textContent ==
            IF isLoading THEN loadingText
            ELSE IF button.originalText # "" THEN button.originalText
            ELSE button.textContent
        originalText ==
            IF ~isLoading THEN ""
            ELSE IF button.originalText = "" THEN textContent
            ELSE button.originalText
    IN  [disabled |-> isLoading, textContent |-> textContent,
         originalText |-> originalText]

\* The coordinates the geocoder answered, put into the payload.
Payload(data, answer) ==
    [data EXCEPT !.latitude = IF answer = "equator" THEN 0 ELSE Lat.delhi,
                 !.longitude = Lon.delhi]

\* ------------------------------------------------------------------- state

VARIABLES
    initPc,       \* where initializeDatabase is
    db,           \* the module-level handle: "undefined" or "pool"
    tableExists,  \* whether the database has a donors table
    donors,       \* the rows of the donors table, in insertion order
    autoInc,      \* the next AUTO_INCREMENT id
    nreq,         \* the number of requests received so far
    req,          \* the requests, by arrival
    btn,          \* registerBtn and searchBtn
    form          \* the pending submission of each form

vars == <<initPc, db, tableExists, donors, autoInc, nreq, req, btn, form>>

Slots == 1..MaxReq

NoRequest ==
    [kind |-> "none", pc |-> "free", body |-> BaseDonor, query |-> BaseQuery,
     handle |-> "undefined", err |-> "none", insertId |-> 0, added |-> 0,
     seen |-> <<>>,
     rows |-> <<>>, status |-> 0, donorId |-> 0, results |-> <<>>]

\* What the database holds when the process starts: no donors table (a first
\* run), or the table of an earlier run, empty or with the two donors
\* registered then.
StoredBefore ==
    {[exists |-> FALSE, rows |-> <<>>],
     [exists |-> TRUE, rows |-> <<>>],
     [exists |-> TRUE,
      rows |-> <<DonorRow(1, [BaseDonor EXCEPT !.phone = "p3",
                                                !.latitude = Lat.north]),
                 DonorRow(2, [BaseDonor EXCEPT !.phone = "p4",
                                                !.latitude = Lat.south])>>]}

\* The labels of the two buttons; the page's markup may or may not give the
\* buttons a data-original-text attribute.
Label == [register |-> "Register as a Donor", search |-> "Search Nearby"]

InitServer ==
    /\ initPc = "createPool"
    /\ db = "undefined"
    /\ \E stored \in StoredBefore :
        /\ tableExists = stored.exists
        /\ donors = stored.rows
        /\ autoInc = Len(stored.rows) + 1
    /\ nreq = 0
    /\ req = [r \in Slots |-> NoRequest]

InitPage(preset) ==
    /\ btn = [b \in {"register", "search"} |->
                [disabled |-> FALSE, textContent |-> Label[b],
                 originalText |-> IF preset THEN Label[b] ELSE ""]]
    /\ form = [register |-> [pc |-> "idle", data |-> BaseDonor, req |-> 0],
               search |-> [pc |-> "idle", group |-> "A+", req |-> 0]]

\* The process has started: app.listen has called back and initializeDatabase
\* has run up to its first await.
Init == InitServer /\ InitPage(FALSE)

PageInit == InitServer /\ \E preset \in BOOLEAN : InitPage(preset)

\* The process runs until process.exit(1).
alive == initPc # "exited"

\* ------------------------------------------------------ initializeDatabase

\* `db = await mysql.createPool(dbConfig)' resumes: the handle is assigned and
\* the CREATE TABLE statement is sent.
AssignPool ==
    /\ initPc = "createPool"
    /\ db' = "pool"
    /\ initPc' = "createTable"
    /\ UNCHANGED <<tableExists, donors, autoInc, nreq, req, btn, form>>

\* The database runs CREATE TABLE IF NOT EXISTS and `await db.query(...)'
\* resumes with the result.
CreateTableDone ==
    /\ initPc = "createTable"
    /\ tableExists' = TRUE
    /\ initPc' = "running"
    /\ UNCHANGED <<db, donors, autoInc, nreq, req, btn, form>>

\* The statement fails (no connection, no such database): the catch block
\* calls process.exit(1).
CreateTableFailed ==
    /\ initPc = "createTable"
    /\ initPc' = "exited"
    /\ UNCHANGED <<db, tableExists, donors, autoInc, nreq, req, btn, form>>

\* ---------------------------------------------------------------- handlers

\* The handler with db.query outside its try block: with no handle yet nothing
\* answers the request.
RegisterArrivalUncaught(body) ==
    IF RegisterRejected(body)
    THEN [NoRequest EXCEPT !.kind = "register", !.body = body, !.handle = db,
                           !.pc = "done", !.status = 400]
    ELSE IF db = "undefined"
    THEN [NoRequest EXCEPT !.kind = "register", !.body = body, !.handle = db,
                           !.pc = "failed"]
    ELSE [NoRequest EXCEPT !.kind = "register", !.body = body, !.handle = db,
                           !.pc = "querying"]

\* The registration handler up to its await: the validation answers 400; with
\* no handle yet, db.query throws a TypeError inside the try block and the
\* catch block answers; otherwise the INSERT statement is sent.
RegisterArrival(body) ==
    IF RegisterRejected(body)
    THEN [NoRequest EXCEPT !.kind = "register", !.body = body, !.handle = db,
                           !.pc = "done", !.status = 400]
    ELSE IF db = "undefined"
    THEN [NoRequest EXCEPT !.kind = "register", !.body = body, !.handle = db,
                           !.pc = "done", !.err = "TypeError",
                           !.status = RegisterStatus("TypeError")]
    ELSE [NoRequest EXCEPT !.kind = "register", !.body = body, !.handle = db,
                           !.pc = "querying"]

\* The search handler up to its await.
SearchArrival(query) ==
    IF SearchRejected(query)
    THEN [NoRequest EXCEPT !.kind = "search", !.query = query, !.handle = db,
                           !.pc = "done", !.status = 400]
    ELSE IF db = "undefined"
    THEN [NoRequest EXCEPT !.kind = "search", !.query = query, !.handle = db,
                           !.pc = "done", !.err = "TypeError",
                           !.status = SearchStatus("TypeError")]
    ELSE [NoRequest EXCEPT !.kind = "search", !.query = query, !.handle = db,
                           !.pc = "querying"]

\* A client other than the page posts a registration.
ApiRegister ==
    /\ alive
    /\ nreq < MaxReq
    /\ \E body \in DonorInputs :
        req' = [req EXCEPT ![nreq + 1] = RegisterArrival(body)]
    /\ nreq' = nreq + 1
    /\ UNCHANGED <<initPc, db, tableExists, donors, autoInc, btn, form>>

\* A client other than the page searches.
ApiSearch ==
    /\ alive
    /\ nreq < MaxReq
    /\ \E query \in SearchQueries :
        req' = [req EXCEPT ![nreq + 1] = SearchArrival(query)]
    /\ nreq' = nreq + 1
    /\ UNCHANGED <<initPc, db, tableExists, donors, autoInc, btn, form>>

\* The database runs the INSERT statement of request r as one atomic
\* statement.
StorageInsert(r) ==
    /\ req[r].kind = "register"
    /\ req[r].pc = "querying"
    /\ LET out == InsertStatement(tableExists, donors, autoInc, req[r].body)
       IN  /\ donors' = out.table
           /\ autoInc' = IF out.err = "none" THEN autoInc + 1 ELSE autoInc
           /\ req' = [req EXCEPT ![r].pc = "settled", ![r].err = out.err,
                                 ![r].insertId = IF out.err = "none" THEN autoInc ELSE 0,
                                 ![r].added = Len(out.table) - Len(donors)]
    /\ UNCHANGED <<initPc, db, tableExists, nreq, btn, form>>

\* `await db.query(insertQuery, ...)' resumes: 201 with result.insertId, or the
\* catch block.
RegisterRespond(r) ==
    /\ alive
    /\ req[r].kind = "register"
    /\ req[r].pc = "settled"
    /\ req' = [req EXCEPT ![r].pc = "done",
                          ![r].status = RegisterStatus(req[r].err),
                          ![r].donorId = IF req[r].err = "none"
                                         THEN req[r].insertId ELSE 0]
    /\ UNCHANGED <<initPc, db, tableExists, donors, autoInc, nreq, btn, form>>

\* The database runs the SELECT statement of request r on the table as it is.
StorageSelect(r) ==
    /\ req[r].kind = "search"
    /\ req[r].pc = "querying"
    /\ LET err == SelectError(tableExists)
       IN  req' = [req EXCEPT ![r].pc = "settled", ![r].err = err,
                              ![r].seen = donors,
                              ![r].rows = IF err = "none"
                                          THEN SearchRows(req[r].query, donors)
                                          ELSE <<>>]
    /\ UNCHANGED <<initPc, db, tableExists, donors, autoInc, nreq, btn, form>>

\* `await db.query(searchQuery, ...)' resumes: 200 with the rows, or the catch
\* block.
SearchRespond(r) ==
    /\ alive
    /\ req[r].kind = "search"
    /\ req[r].pc = "settled"
    /\ req' = [req EXCEPT ![r].pc = "done",
                          ![r].status = SearchStatus(req[r].err),
                          ![r].results = req[r].rows]
    /\ UNCHANGED <<initPc, db, tableExists, donors, autoInc, nreq, btn, form>>

\* ------------------------------------------------------------ form handlers

\* The donor form is submitted: the button is put in its loading state and
\* the address goes to the geocoder.
DonorSubmit ==
    /\ form.register.pc = "idle"
    /\ \E data \in FormDonors :
        form' = [form EXCEPT !.register = [pc |-> "geocoding", data |-> data, req |-> 0]]
    /\ btn' = [btn EXCEPT !.register = setLoadingState(@, TRUE, "Registering...")]
    /\ UNCHANGED <<initPc, db, tableExists, donors, autoInc, nreq, req>>

\* The geocoder found nothing (or failed): the handler throws, shows the
\* message and runs its finally block.
DonorNotFound ==
    /\ form.register.pc = "geocoding"
    /\ form' = [form EXCEPT !.register.pc = "idle"]
    /\ btn' = [btn EXCEPT !.register = setLoadingState(@, FALSE, Label.register)]
    /\ UNCHANGED <<initPc, db, tableExists, donors, autoInc, nreq, req>>

\* The geocoder answered: the payload is posted and the server's handler runs.
DonorPost ==
    /\ form.register.pc = "geocoding"
    /\ alive
    /\ nreq < MaxReq
    /\ \E answer \in GeocodeAnswers \ {"null"} :
        req' = [req EXCEPT ![nreq + 1] =
                    RegisterArrival(Payload(form.register.data, answer))]
    /\ nreq' = nreq + 1
    /\ form' = [form EXCEPT !.register.pc = "fetching", !.register.req = nreq + 1]
    /\ UNCHANGED <<initPc, db, tableExists, donors, autoInc, btn>>

\* The response arrived, or the connection broke with the server's exit: the
\* status message is shown and the finally block runs.
DonorSettle ==
    /\ form.register.pc = "fetching"
    /\ req[form.register.req].pc = "done" \/ ~alive
    /\ form' = [form EXCEPT !.register.pc = "idle"]
    /\ btn' = [btn EXCEPT !.register = setLoadingState(@, FALSE, Label.register)]
    /\ UNCHANGED <<initPc, db, tableExists, donors, autoInc, nreq, req>>

\* The seeker form is submitted: the button is put in its loading state and
\* the browser is asked for the position.
SeekerSubmit ==
    /\ form.search.pc = "idle"
    /\ \E group \in FormGroups :
        form' = [form EXCEPT !.search = [pc |-> "locating", group |-> group, req |-> 0]]
    /\ btn' = [btn EXCEPT !.search = setLoadingState(@, TRUE, "Searching...")]
    /\ UNCHANGED <<initPc, db, tableExists, donors, autoInc, nreq, req>>

\* The position is refused: the catch block shows the error, then finally.
SeekerDenied ==
    /\ form.search.pc = "locating"
    /\ form' = [form EXCEPT !.search.pc = "idle"]
    /\ btn' = [btn EXCEPT !.search = setLoadingState(@, FALSE, Label.search)]
    /\ UNCHANGED <<initPc, db, tableExists, donors, autoInc, nreq, req>>

\* The position is known: the search URL is fetched and the server's handler
\* runs on the query string as express parses it.
SeekerFetch ==
    /\ form.search.pc = "locating"
    /\ alive
    /\ nreq < MaxReq
    /\ req' = [req EXCEPT ![nreq + 1] =
                SearchArrival([BaseQuery EXCEPT
                    !.bloodGroup = QueryValue(form.search.group)])]
    /\ nreq' = nreq + 1
    /\ form' = [form EXCEPT !.search.pc = "fetching", !.search.req = nreq + 1]
    /\ UNCHANGED <<initPc, db, tableExists, donors, autoInc, btn>>

\* The response arrived (or the connection broke): the results or the error
\* are shown, then the finally block runs.
SeekerSettle ==
    /\ form.search.pc = "fetching"
    /\ req[form.search.req].pc = "done" \/ ~alive
    /\ form' = [form EXCEPT !.search.pc = "idle"]
    /\ btn' = [btn EXCEPT !.search = setLoadingState(@, FALSE, Label.search)]
    /\ UNCHANGED <<initPc, db, tableExists, donors, autoInc, nreq, req>>

\* ------------------------------------------------------------ specification

\* The server and the database.
Server ==
    \/ AssignPool
    \/ CreateTableDone
    \/ CreateTableFailed
    \/ \E r \in Slots : StorageInsert(r)
    \/ \E r \in Slots : RegisterRespond(r)
    \/ \E r \in Slots : StorageSelect(r)
    \/ \E r \in Slots : SearchRespond(r)

\* The server with clients that call its two routes directly.
Next ==
    \/ Server
    \/ ApiRegister
    \/ ApiSearch

Spec == Init /\ [][Next]_vars

\* The server with the page as its client.
PageNext ==
    \/ Server
    \/ DonorSubmit
    \/ DonorNotFound
    \/ DonorPost
    \/ DonorSettle
    \/ SeekerSubmit
    \/ SeekerDenied
    \/ SeekerFetch
    \/ SeekerSettle

PageSpec == PageInit /\ [][PageNext]_vars

\* ------------------------------------------------------------------ claims

\* The data model of the registry: the recognised blood groups, the
\* geographic bounds (in the model's units), a well-formed donor input.
BloodGroups == {"A+", "A-", "B+", "B-", "AB+", "AB-", "O+", "O-"}
GeoBounds == [latitude |-> 900000, longitude |-> 1800000]

InBounds(latitude, longitude) ==
    /\ Abs(latitude) <= GeoBounds.latitude
    /\ Abs(longitude) <= GeoBounds.longitude

Malformed(body) ==
    \/ body.has # DonorFields
    \/ body.age <= 0
    \/ ~InBounds(body.latitude, body.longitude)

WellFormed(body) == ~Malformed(body) /\ body.bloodGroup \in BloodGroups

Registrations == {r \in Slots : req[r].kind = "register"}
Searches == {r \in Slots : req[r].kind = "search"}
Answered(r) == req[r].pc = "done"

\* A request handled once the database is ready: it found the handle assigned
\* and the donors table in place.
StorageReady(r) == req[r].handle = "pool" /\ req[r].err # "ER_NO_SUCH_TABLE"

RowsWithId(id) == {i \in 1..Len(donors) : donors[i].id = id}

\* The great-circle distance itself, in metres: that of the query, and 0 from
\* a point to itself.
GreatCircle(query, row) ==
    IF query.latitude = row.latitude /\ query.longitude = row.longitude THEN 0
    ELSE Distance(query.latitude, query.longitude, row.latitude, row.longitude).m

\* C1: of two registrations with the same phone number and otherwise valid
\* fields, handled once the database is ready, exactly one succeeds with a
\* donor id and the other is answered 409; the table never holds two rows with
\* one phone number.
C1_ExactlyOneSucceeds ==
    /\ \A i, j \in 1..Len(donors) : donors[i].phone = donors[j].phone => i = j
    /\ \A r1, r2 \in Registrations :
        /\ r1 # r2
        /\ Answered(r1) /\ Answered(r2)
        /\ WellFormed(req[r1].body) /\ WellFormed(req[r2].body)
        /\ req[r1].body.phone = req[r2].body.phone
        /\ StorageReady(r1) /\ StorageReady(r2)
        => \/ req[r1].status = 201 /\ req[r1].donorId > 0 /\ req[r2].status = 409
           \/ req[r2].status = 201 /\ req[r2].donorId > 0 /\ req[r1].status = 409

\* C2: an answered registration either succeeded, and then its statement added
\* exactly one row, the row of its input under the id it returned, or failed
\* (400, 409 or 500), and then its statement added no row and no id is returned.
C2_NoPartialSuccess ==
    \A r \in Registrations :
        Answered(r) =>
            \/ /\ req[r].status = 201
               /\ req[r].added = 1
               /\ Cardinality(RowsWithId(req[r].donorId)) = 1
               /\ \A i \in RowsWithId(req[r].donorId) :
                    donors[i] = DonorRow(req[r].donorId, req[r].body)
            \/ /\ req[r].status \in {400, 409, 500}
               /\ req[r].added = 0
               /\ req[r].donorId = 0

\* Both outcomes in one run: a registration that succeeded and one that was
\* refused as a duplicate.
C2_Witness ==
    \E r1, r2 \in Registrations :
        /\ Answered(r1) /\ req[r1].status = 201
        /\ Answered(r2) /\ req[r2].status = 409

\* C3: a registration with a missing or malformed field (age not positive,
\* latitude or longitude out of bounds) is answered 400 and no INSERT is issued
\* for it.
C3_MalformedRejected ==
    \A r \in Registrations :
        Malformed(req[r].body) /\ req[r].handle = "pool" =>
            /\ Answered(r)
            /\ req[r].status = 400
            /\ req[r].added = 0

\* C4: every stored row has its latitude in [-90, 90], its longitude in
\* [-180, 180] and a recognised blood group.
C4_RowsWellFormed ==
    \A i \in 1..Len(donors) :
        /\ InBounds(donors[i].latitude, donors[i].longitude)
        /\ donors[i].bloodGroup \in BloodGroups

\* C5: a registration with a well-formed input (latitude or longitude 0
\* included) whose phone is not registered, handled once the database is ready,
\* succeeds, and the rows of its blood group hold the donor exactly once.
C5_WellFormedRegisters ==
    \A r \in Registrations :
        /\ Answered(r)
        /\ WellFormed(req[r].body)
        /\ StorageReady(r)
        /\ req[r].status = 201 \/ ~PhoneTaken(donors, req[r].body.phone)
        => /\ req[r].status = 201
           /\ Cardinality({i \in RowsWithId(req[r].donorId) :
                    /\ donors[i].bloodGroup = req[r].body.bloodGroup
                    /\ donors[i].phone = req[r].body.phone}) = 1

\* C6: every match a search returns is less than the radius away, and the
\* matches are in non-decreasing order of distance.
C6_WithinRadiusOrdered ==
    \A r \in Searches :
        Answered(r) =>
            /\ \A k \in 1..Len(req[r].results) :
                /\ ~req[r].results[k].distance.null
                /\ req[r].results[k].distance.m < searchRadiusKm * 1000
            /\ \A k \in 1..(Len(req[r].results) - 1) :
                req[r].results[k].distance.m <= req[r].results[k + 1].distance.m

\* A search that returned two matches in another order than the table's, and
\* left out a donor of the same blood group that is too far away.
C6_Witness ==
    \E r \in Searches :
        /\ Answered(r)
        /\ Len(req[r].results) = 2
        /\ req[r].results[1].distance.m < req[r].results[2].distance.m
        /\ req[r].results[1].id > req[r].results[2].id
        /\ \E i \in 1..Len(req[r].seen) :
            /\ req[r].seen[i].bloodGroup = req[r].query.bloodGroup
            /\ \A k \in 1..Len(req[r].results) : req[r].results[k].id # req[r].seen[i].id

\* C7: a search answered with success returns exactly the donors of the table
\* that have the blood group asked for and are less than the radius away from
\* the origin, each once.
C7_ExactlyTheNearbyDonors ==
    \A r \in Searches :
        Answered(r) /\ req[r].status = 200 =>
            /\ {req[r].results[k].id : k \in 1..Len(req[r].results)}
                = {req[r].seen[i].id : i \in
                    {i \in 1..Len(req[r].seen) :
                        /\ req[r].seen[i].bloodGroup = req[r].query.bloodGroup
                        /\ GreatCircle(req[r].query, req[r].seen[i])
                            < searchRadiusKm * 1000}}
            /\ \A k, l \in 1..Len(req[r].results) :
                req[r].results[k].id = req[r].results[l].id => k = l

\* C8: every step keeps every row of the table in its place with its fields,
\* a registration's statement that succeeds adds one row at the end, and
\* no step of a search changes the table.
C8_AppendOnly ==
    [][/\ Len(donors') \in {Len(donors), Len(donors) + 1}
       /\ \A i \in 1..Len(donors) : donors'[i] = donors[i]
       /\ \A r \in Slots :
            /\ req[r].pc = "querying" /\ req[r].kind = "register"
               /\ req'[r].pc = "settled" /\ req'[r].err = "none"
               => Len(donors') = Len(donors) + 1
            /\ req'[r].kind = "search" /\ req'[r] # req[r]
               => donors' = donors]_vars

\* The two rows of an earlier run, a row registered in this run, and a search
\* answered after it.
C8_Witness ==
    /\ Len(donors) = 3
    /\ \E r \in Registrations : Answered(r) /\ req[r].status = 201
    /\ \E r \in Searches : Answered(r) /\ req[r].status = 200

\* C9: when no submission of a form is pending, its button is enabled and shows
\* the label it had before the first submission.
C9_ButtonRestored ==
    \A b \in {"register", "search"} :
        form[b].pc = "idle" =>
            /\ ~btn[b].disabled
            /\ btn[b].textContent = Label[b]

\* C10: a request that arrives while the handle is not assigned and passes
\* the validation is answered in the same step with 500, the step leaves the
\* table as it is and sends no statement; nothing happens to the request
\* afterwards (it has its one response).
C10_NoHandleNoStorage ==
    [][\A r \in Slots :
        /\ /\ req[r].kind = "none" /\ req'[r].kind # "none"
           /\ db = "undefined"
           /\ \/ req'[r].kind = "register" /\ ~RegisterRejected(req'[r].body)
              \/ req'[r].kind = "search" /\ ~SearchRejected(req'[r].query)
           => /\ req'[r].pc = "done"
              /\ req'[r].status = 500
              /\ donors' = donors
        /\ req[r].kind # "none" /\ req[r].handle = "undefined"
           => req'[r] = req[r]]_vars

\* A registration and a search, both passing the validation, both received
\* before initializeDatabase assigned the handle.
C10_Witness ==
    /\ initPc = "createPool"
    /\ \E r \in Registrations :
        req[r].handle = "undefined" /\ ~RegisterRejected(req[r].body)
        /\ req[r].status = 500
    /\ \E r \in Searches :
        req[r].handle = "undefined" /\ ~SearchRejected(req[r].query)
        /\ req[r].status = 500

====
